---- MODULE Spec2Model ----
(***************************************************************************)
(* Model of discord/ext/class_commands/commands.py: the class-construction *)
(* reflection of CommandMeta.__new__, the Python object model its command  *)
(* classes and instances live in, and the three-way routing of             *)
(* Command.send.                                                           *)
(***************************************************************************)
EXTENDS Integers, Sequences, FiniteSets, TLC

VARIABLES classes, last, instances, interaction, entry, pc, args, calls, ret

vars == <<classes, last, instances, interaction, entry, pc, args, calls, ret>>

(***************************************************************************)
(* Bounds of the model.                                                    *)
(***************************************************************************)
MaxUserClasses == 1
MaxAttrs == 2
MaxInstances == 2
MaxListLen == 1

(***************************************************************************)
(* Python values.  Every value is a record with a tag.                     *)
(***************************************************************************)
\* discord.utils.MISSING, the "unset" sentinel
MISSING == [tag |-> "MISSING"]

\* inspect.Parameter.empty
_empty == [tag |-> "empty"]

\* None
None == [tag |-> "None"]

\* a plain function object (type(v) is FunctionType)
Function == [tag |-> "function"]

\* an immutable bare value (a str or an int)
Bare(v) == [tag |-> "bare", val |-> v]

\* a list object
List(items) == [tag |-> "list", items |-> items]

\* a dict object, as its ordered items
Dict(items) == [tag |-> "dict", items |-> items]

\* a member of discord.AppCommandType
AppCommandType(v) == [tag |-> "AppCommandType", val |-> v]

\* the builtin class object `type`
BuiltinType == [tag |-> "class", val |-> "type"]

Option(default, name, description) ==
    [tag |-> "Option", description |-> description, default |-> default,
     autocomplete |-> FALSE, name |-> name]

ParameterData(name, default, annotation) ==
    [tag |-> "ParameterData", name |-> name, kind |-> "POSITIONAL_OR_KEYWORD",
     default |-> IF default # MISSING THEN default ELSE _empty,
     annotation |-> IF annotation # MISSING THEN annotation ELSE _empty]

(***************************************************************************)
(* Ordered dicts (a class namespace, a dict object) as sequences of        *)
(* <<key, value>> pairs with distinct keys.                                *)
(***************************************************************************)
Keys(d) == {d[i][1] : i \in 1..Len(d)}

Has(d, k) == \E i \in 1..Len(d) : d[i][1] = k

Get(d, k) == d[CHOOSE i \in 1..Len(d) : d[i][1] = k][2]

GetOr(d, k, dflt) == IF Has(d, k) THEN Get(d, k) ELSE dflt

\* d[k] = v: an existing key keeps its position, a new key goes last
Put(d, k, v) ==
    IF Has(d, k) THEN [i \in 1..Len(d) |-> IF d[i][1] = k THEN <<k, v>> ELSE d[i]]
    ELSE Append(d, <<k, v>>)

(***************************************************************************)
(* Name resolution inside commands.py: module globals, then builtins.      *)
(***************************************************************************)
ModuleGlobals ==
    {"inspect", "traceback", "FunctionType", "Optional", "TypeVar", "Dict", "Any",
     "List", "TYPE_CHECKING", "Union", "Sequence", "Generic", "AppCommandType",
     "Interaction", "Member", "Message", "User", "MISSING", "CommandT", "_empty",
     "optionbase", "Option", "ParameterData", "CommandMeta", "Command",
     "SlashCommand", "UserCommand", "MessageCommand"}

PyBuiltins == {"type", "isinstance", "len", "classmethod", "staticmethod", "TypeError"}

\* "global", "builtin", or "NameError" when the name is bound nowhere
Resolve(n) ==
    IF n \in ModuleGlobals THEN "global"
    ELSE IF n \in PyBuiltins THEN "builtin"
    ELSE "NameError"

\* isinstance(v, <name>) for a class name looked up at run time
IsInstance(v, n) ==
    IF Resolve(n) = "NameError" THEN "NameError"
    ELSE IF n = v.tag THEN "True" ELSE "False"

(***************************************************************************)
(* CommandMeta.__new__                                                     *)
(***************************************************************************)
ParamsKey == "__discord_app_commands_params__"
RenameKey == "__discord_app_commands_param_rename__"
DescriptionKey == "__discord_app_commands_param_description__"
TypeKey == "__discord_app_commands_type__"
AnnotationsKey == "__annotations__"

\* the names of the model that start with an underscore: k.startswith('_')
StartsWithUnderscore(k) ==
    k \in {"__module__", "__qualname__", "__doc__", "__orig_bases__", "_hits",
           AnnotationsKey, ParamsKey, RenameKey, DescriptionKey, TypeKey}

\* the condition of the `continue` at the head of the loop
Skipped(k, v) ==
    \/ StartsWithUnderscore(k)
    \/ k = "interaction"
    \/ v.tag \in {"function", "classmethod", "staticmethod"}

\* the class name the loop hands to isinstance
ParameterClassName == "Parameter"

\* the left operand of the arity check: the name `type` as __new__ sees it
ArityTypeOperand == IF Resolve("type") = "builtin" THEN BuiltinType ELSE MISSING

\* one iteration of the loop body for an attribute that is not skipped
ScanOne(acc, k, v, annotations) ==
    LET annotation == GetOr(annotations, k, Bare("str"))
        inst == IsInstance(v, ParameterClassName)
        default == IF inst = "True" THEN v.default
                   ELSE IF v # MISSING THEN v ELSE MISSING
        description == IF inst = "True" THEN v.description ELSE MISSING
        name == IF inst = "True" THEN v.name ELSE MISSING
    IN  IF inst = "NameError" THEN [acc EXCEPT !.exc = "NameError"]
        ELSE [arguments |-> Append(acc.arguments, ParameterData(k, default, annotation)),
              descriptions |-> IF description # MISSING
                               THEN Put(acc.descriptions, k, description)
                               ELSE acc.descriptions,
              renames |-> IF name # MISSING THEN Put(acc.renames, k, name)
                          ELSE acc.renames,
              exc |-> acc.exc]

\* a scan that also visits the names the body only annotates, as unset values
ScannedItems_WithAnnotations(attrs) ==
    LET ann == IF Has(attrs, AnnotationsKey) THEN Get(attrs, AnnotationsKey).items
               ELSE <<>>
        only == SelectSeq(ann, LAMBDA e : ~Has(attrs, e[1]))
    IN  attrs \o [i \in 1..Len(only) |-> <<only[i][1], MISSING>>]

\* the items the loop visits: attrs.items()
ScannedItems(attrs) == attrs

RECURSIVE Scan(_, _, _, _)
\* for k, v in <items>, from item i on; an exception ends the loop
Scan(attrs, i, annotations, acc) ==
    IF i > Len(attrs) \/ acc.exc # "none" THEN acc
    ELSE LET k == attrs[i][1]
             v == attrs[i][2]
         IN  IF Skipped(k, v) THEN Scan(attrs, i + 1, annotations, acc)
             ELSE Scan(attrs, i + 1, annotations, ScanOne(acc, k, v, annotations))

\* the result of CommandMeta.__new__(cls, classname, bases, attrs): the exception
\* raised ("none" when the class is created) and the namespace of the class
CommandMeta__new__(attrs) ==
    LET attrs1 == Put(attrs, ParamsKey, List(<<>>))
        annotations == IF Has(attrs1, AnnotationsKey)
                       THEN Get(attrs1, AnnotationsKey).items ELSE <<>>
        acc == Scan(ScannedItems(attrs1), 1, annotations,
                    [arguments |-> <<>>, descriptions |-> <<>>, renames |-> <<>>,
                     exc |-> "none"])
        attrs2 == Put(attrs1, ParamsKey, List(acc.arguments))
        arity == /\ ArityTypeOperand \in {AppCommandType("user"), AppCommandType("message")}
                 /\ Len(acc.arguments) > 1
        attrs3 == IF acc.renames # <<>> THEN Put(attrs2, RenameKey, Dict(acc.renames))
                  ELSE attrs2
        attrs4 == IF acc.descriptions # <<>>
                  THEN Put(attrs3, DescriptionKey, Dict(acc.descriptions))
                  ELSE attrs3
    IN  IF acc.exc # "none" THEN [exc |-> acc.exc, ns |-> <<>>]
        ELSE IF arity THEN [exc |-> "TypeError", ns |-> <<>>]
        ELSE [exc |-> "none", ns |-> attrs4]

(***************************************************************************)
(* The classes of the module, as their class bodies leave the namespace.   *)
(***************************************************************************)
CommandBody ==
    << <<"__module__", Bare("discord.ext.class_commands.commands")>>,
       <<"__qualname__", Bare("Command")>>,
       <<"__doc__", Bare("doc")>>,
       <<AnnotationsKey, Dict(<< <<"interaction", Bare("Interaction")>> >>)>>,
       <<"callback", Function>>,
       <<"on_error", Function>>,
       <<"send", Function>>,
       <<"defer", Function>> >>

SlashCommandBody ==
    << <<"__module__", Bare("discord.ext.class_commands.commands")>>,
       <<"__qualname__", Bare("SlashCommand")>>,
       <<"__doc__", Bare("doc")>>,
       <<TypeKey, AppCommandType("chat_input")>>,
       <<"autocomplete", Function>>,
       <<"__orig_bases__", Bare("(Command, Generic[CommandT])")>> >>

UserCommandBody ==
    << <<"__module__", Bare("discord.ext.class_commands.commands")>>,
       <<"__qualname__", Bare("UserCommand")>>,
       <<"__doc__", Bare("doc")>>,
       <<TypeKey, AppCommandType("user")>>,
       <<AnnotationsKey, Dict(<< <<"target", Bare("Union[Member, User]")>> >>)>>,
       <<"__orig_bases__", Bare("(Command, Generic[CommandT])")>> >>

MessageCommandBody ==
    << <<"__module__", Bare("discord.ext.class_commands.commands")>>,
       <<"__qualname__", Bare("MessageCommand")>>,
       <<"__doc__", Bare("doc")>>,
       <<TypeKey, AppCommandType("message")>>,
       <<AnnotationsKey, Dict(<< <<"target", Bare("Message")>> >>)>>,
       <<"__orig_bases__", Bare("(Command, Generic[CommandT])")>> >>

\* the class statements of the module in order: name, base (0 is object), body
ModuleClassStatements ==
    << [name |-> "Command", base |-> 0, body |-> CommandBody],
       [name |-> "SlashCommand", base |-> 1, body |-> SlashCommandBody],
       [name |-> "UserCommand", base |-> 1, body |-> UserCommandBody],
       [name |-> "MessageCommand", base |-> 1, body |-> MessageCommandBody] >>

RECURSIVE ImportModule(_, _)
\* executing the class statements from statement i on: the first one that raises
\* ends the import, and the classes after it do not exist
ImportModule(i, done) ==
    IF i > Len(ModuleClassStatements) THEN done
    ELSE LET st == ModuleClassStatements[i]
             r == CommandMeta__new__(st.body)
         IN  IF r.exc # "none" THEN done
             ELSE ImportModule(i + 1,
                               Append(done, [name |-> st.name, base |-> st.base,
                                             ns |-> r.ns]))

(***************************************************************************)
(* Class objects: attribute lookup along the (single-inheritance) MRO.     *)
(***************************************************************************)
RECURSIVE Owner(_, _, _)
\* the class of the MRO of c whose namespace binds k, 0 when none does
Owner(cls, c, k) ==
    IF c = 0 THEN 0
    ELSE IF Has(cls[c].ns, k) THEN c
    ELSE Owner(cls, cls[c].base, k)

ClassHas(cls, c, k) == Owner(cls, c, k) # 0

\* getattr(c, k)
ClassGet(cls, c, k) == Get(cls[Owner(cls, c, k)].ns, k)

\* the metadata the dispatcher reads on class c
ParamsOf(cls, c) == ClassGet(cls, c, ParamsKey).items

ParamNames(cls, c) == [i \in 1..Len(ParamsOf(cls, c)) |-> ParamsOf(cls, c)[i].name]

RenamesOf(cls, c) ==
    IF ClassHas(cls, c, RenameKey) THEN ClassGet(cls, c, RenameKey).items ELSE <<>>

DescriptionsOf(cls, c) ==
    IF ClassHas(cls, c, DescriptionKey) THEN ClassGet(cls, c, DescriptionKey).items
    ELSE <<>>

(***************************************************************************)
(* The class bodies a user of the library writes.                          *)
(***************************************************************************)
BodyEntries ==
    { <<"a", Bare("V")>>,
      <<"b", Option(Bare("D"), Bare("N"), Bare("Desc"))>>,
      <<"c", MISSING>>,
      <<"interaction", Bare("V")>>,
      <<"callback", Function>>,
      <<RenameKey, Dict(<< <<"a", Bare("N")>> >>)>>,
      <<AnnotationsKey, Dict(<< <<"a", Bare("int")>> >>)>> }

DistinctKeys(d) == \A i, j \in 1..Len(d) : d[i][1] = d[j][1] => i = j

Bodies ==
    {b \in UNION {[1..n -> BodyEntries] : n \in 0..MaxAttrs} : DistinctKeys(b)}

\* what the class statement adds to every body before the metaclass sees it
Namespace(name, body) ==
    << <<"__module__", Bare("__main__")>>, <<"__qualname__", Bare(name)>> >> \o body

UserClassNames == <<"U1", "U2", "U3", "U4">>

NoOp == [op |-> "import", base |-> 0, body |-> <<>>, exc |-> "none", cls |-> 0,
         actor |-> 0]


(***************************************************************************)
(* Command.send: the arguments and what each path is handed.               *)
(***************************************************************************)
Message(id) == [tag |-> "Message", id |-> id]

MessageIds == {"m1", "m2"}

HTTPException == [tag |-> "HTTPException"]

\* the defaults of the signature of send
DefaultArgs ==
    [content |-> None, tts |-> FALSE, embed |-> None, embeds |-> None, file |-> None,
     files |-> None, nonce |-> None, allowed_mentions |-> None, view |-> None,
     suppress_embeds |-> FALSE, ephemeral |-> FALSE]

\* the calls of send the model makes
SendArgs ==
    [content : {None, Bare("hi")}, tts : BOOLEAN, embed : {None, Bare("E")},
     embeds : {None}, file : {None, Bare("F")}, files : {None},
     nonce : {None, Bare("n")}, allowed_mentions : {None}, view : {None},
     suppress_embeds : {FALSE}, ephemeral : BOOLEAN]

\* MISSING if x is None else x
NoneToMissing(x) == IF x = None THEN MISSING ELSE x

\* a channel send that also forwards `ephemeral`
ChannelKwargs_WithEphemeral(a) ==
    [content |-> a.content, tts |-> a.tts, embed |-> a.embed, embeds |-> a.embeds,
     file |-> a.file, files |-> a.files, nonce |-> a.nonce,
     allowed_mentions |-> a.allowed_mentions, view |-> a.view,
     suppress_embeds |-> a.suppress_embeds, ephemeral |-> a.ephemeral]

\* the keyword arguments of interaction.channel.send(...)
ChannelKwargs(a) ==
    [content |-> a.content, tts |-> a.tts, embed |-> a.embed, embeds |-> a.embeds,
     file |-> a.file, files |-> a.files, nonce |-> a.nonce,
     allowed_mentions |-> a.allowed_mentions, view |-> a.view,
     suppress_embeds |-> a.suppress_embeds]

\* the dict kwargs
ResponseKwargs(a) ==
    [content |-> a.content, tts |-> a.tts, embed |-> NoneToMissing(a.embed),
     embeds |-> NoneToMissing(a.embeds), file |-> NoneToMissing(a.file),
     files |-> NoneToMissing(a.files),
     allowed_mentions |-> NoneToMissing(a.allowed_mentions),
     view |-> NoneToMissing(a.view), suppress_embeds |-> a.suppress_embeds,
     ephemeral |-> a.ephemeral]

\* the keyword arguments of interaction.followup.send(**kwargs, wait=True)
FollowupKwargs(a) ==
    [k \in DOMAIN ResponseKwargs(a) \cup {"wait"} |->
        IF k = "wait" THEN TRUE ELSE ResponseKwargs(a)[k]]

\* a branch that takes the follow-up for the initial response
Route_Swapped(inter) ==
    IF inter.expired THEN "channel.send"
    ELSE IF inter.done THEN "response.send_message"
    ELSE "followup.send"

\* the three-way branch of send on the state of the interaction
Route(inter) ==
    IF inter.expired THEN "channel.send"
    ELSE IF inter.done THEN "followup.send"
    ELSE "response.send_message"

\* the first external call of send
FirstCall(inter, a) ==
    LET path == Route(inter)
    IN  [path |-> path,
         kwargs |-> IF path = "channel.send" THEN ChannelKwargs(a)
                    ELSE IF path = "followup.send" THEN FollowupKwargs(a)
                    ELSE ResponseKwargs(a),
         status |-> "pending", result |-> None]

\* a send that returns what send_message returned and fetches nothing
AfterFirst_NoFetch(path) == "return"

\* what send does once its first call has returned: return the result of the
\* call, or go on to fetch the message of the response
AfterFirst(path) == IF path = "response.send_message" THEN "fetch" ELSE "return"

(***************************************************************************)
(* State machine.                                                          *)
(***************************************************************************)
Init ==
    /\ classes = ImportModule(1, <<>>)
    /\ last = NoOp
    /\ instances = <<>>
    /\ interaction = [expired |-> FALSE, done |-> FALSE]
    /\ entry = [expired |-> FALSE, done |-> FALSE]
    /\ pc = "idle"
    /\ args = DefaultArgs
    /\ calls = <<>>
    /\ ret = None

NumBuiltin == Len(ModuleClassStatements)

\* class <name>(<base>): <body>.  The exception of a class statement is not
\* caught: the program that ran the statement ends there.
DefineClass(base, body) ==
    /\ last.exc = "none"
    /\ Len(classes) < NumBuiltin + MaxUserClasses
    /\ base \in 1..Len(classes)
    /\ LET name == UserClassNames[Len(classes) - NumBuiltin + 1]
           r == CommandMeta__new__(Namespace(name, body))
       IN  /\ classes' = IF r.exc = "none"
                         THEN Append(classes, [name |-> name, base |-> base, ns |-> r.ns])
                         ELSE classes
           /\ last' = [op |-> "define", base |-> base, body |-> body, exc |-> r.exc,
                       cls |-> IF r.exc = "none" THEN Len(classes) + 1 ELSE 0,
                       actor |-> 0]
    /\ UNCHANGED <<instances, interaction, entry, pc, args, calls, ret>>

Define == \E base \in 1..(NumBuiltin + MaxUserClasses), body \in Bodies : DefineClass(base, body)

Next == Define

Spec == Init /\ [][Next]_vars

(***************************************************************************)
(* Instances.  Command defines neither __init__ nor __slots__: an instance *)
(* is a class and an own __dict__, and an attribute the instance does not  *)
(* bind is read from the class.                                            *)
(***************************************************************************)
AttributeError == [tag |-> "AttributeError"]

\* getattr(instances[i], k)
Read(cls, insts, i, k) ==
    IF Has(insts[i].dict, k) THEN Get(insts[i].dict, k)
    ELSE IF ClassHas(cls, insts[i].cls, k) THEN ClassGet(cls, insts[i].cls, k)
    ELSE AttributeError

\* the object after obj.append(x) on a list, obj[k] = x on a dict
Mutated(obj, x) ==
    IF obj.tag = "list" THEN List(Append(obj.items, x))
    ELSE Dict(Put(obj.items, "z", x))

Size(obj) == Len(obj.items)

\* the class bodies of the commands that get instantiated
CommandBodies ==
    { << <<"callback", Function>> >>,
      << <<"_hits", List(<<>>)>>, <<"callback", Function>> >> }

\* the attributes written through an instance, and those changed in place
WrittenKeys == {"_hits"}

MutatedKeys == {"_hits", ParamsKey}

InstanceValues == {Bare("x"), List(<<>>)}

\* the dispatcher creates an instance of command class c for an invocation
NewInstance(c) ==
    /\ Len(instances) < MaxInstances
    /\ c \in (NumBuiltin + 1)..Len(classes)
    /\ \A i \in 1..Len(instances) : instances[i].cls = c
    /\ instances' = Append(instances, [cls |-> c, dict |-> <<>>])
    /\ last' = [NoOp EXCEPT !.op = "new", !.cls = c, !.actor = Len(instances) + 1]
    /\ UNCHANGED <<classes, interaction, entry, pc, args, calls, ret>>

\* self.k = v
SetAttr(i, k, v) ==
    /\ i \in 1..Len(instances)
    /\ instances' = [instances EXCEPT ![i].dict = Put(@, k, v)]
    /\ last' = [NoOp EXCEPT !.op = "setattr", !.cls = instances[i].cls, !.actor = i]
    /\ UNCHANGED <<classes, interaction, entry, pc, args, calls, ret>>

\* self.k.append(x), self.k[key] = x: the object self.k is changed in place,
\* wherever the attribute lookup found it
MutateAttr(i, k, x) ==
    /\ i \in 1..Len(instances)
    /\ LET obj == Read(classes, instances, i, k)
           c == Owner(classes, instances[i].cls, k)
       IN  /\ obj.tag \in {"list", "dict"}
           /\ Size(obj) < MaxListLen
           /\ IF Has(instances[i].dict, k)
              THEN /\ instances' = [instances EXCEPT ![i].dict = Put(@, k, Mutated(obj, x))]
                   /\ UNCHANGED classes
              ELSE /\ classes' = [classes EXCEPT ![c].ns = Put(@, k, Mutated(obj, x))]
                   /\ UNCHANGED instances
    /\ last' = [NoOp EXCEPT !.op = "mutate", !.cls = instances[i].cls, !.actor = i]
    /\ UNCHANGED <<interaction, entry, pc, args, calls, ret>>

DefineCommand ==
    \E base \in 1..(NumBuiltin + MaxUserClasses), body \in CommandBodies :
        /\ instances = <<>>
        /\ DefineClass(base, body)

Instantiate == \E c \in 1..(NumBuiltin + MaxUserClasses) : NewInstance(c)

Write == \E i \in 1..MaxInstances, k \in WrittenKeys, v \in InstanceValues : SetAttr(i, k, v)

Mutate == \E i \in 1..MaxInstances, k \in MutatedKeys : MutateAttr(i, k, Bare("x"))

NextInst == DefineCommand \/ Instantiate \/ Write \/ Mutate

SpecInst == Init /\ [][NextInst]_vars

(***************************************************************************)
(* Command.send and Command.defer as coroutines: one action up to each     *)
(* await, one for each way the awaited call can end.                       *)
(***************************************************************************)
metaVars == <<classes, last, instances>>

\* await self.send(...) up to its first await
SendStart(a) ==
    /\ pc = "idle"
    /\ entry' = interaction
    /\ args' = a
    /\ calls' = <<FirstCall(interaction, a)>>
    /\ ret' = None
    /\ pc' = "await_first"
    /\ UNCHANGED <<interaction, metaVars>>

\* the first call returns: a message from the two send paths, nothing from
\* send_message, which leaves the interaction responded
FirstReturns(m) ==
    /\ pc = "await_first"
    /\ LET path == calls[1].path
           result == IF path = "response.send_message" THEN None ELSE Message(m)
           done1 == [calls EXCEPT ![1].status = "returned", ![1].result = result]
       IN  /\ interaction' = IF path = "response.send_message"
                             THEN [interaction EXCEPT !.done = TRUE]
                             ELSE interaction
           /\ IF AfterFirst(path) = "fetch"
              THEN /\ calls' = Append(done1, [path |-> "original_message", kwargs |-> <<>>,
                                              status |-> "pending", result |-> None])
                   /\ pc' = "await_fetch"
                   /\ UNCHANGED ret
              ELSE /\ calls' = done1
                   /\ ret' = result
                   /\ pc' = "returned"
    /\ UNCHANGED <<entry, args, metaVars>>

\* await interaction.original_message() returns
FetchReturns(m) ==
    /\ pc = "await_fetch"
    /\ calls' = [calls EXCEPT ![Len(calls)].status = "returned",
                              ![Len(calls)].result = Message(m)]
    /\ ret' = Message(m)
    /\ pc' = "returned"
    /\ UNCHANGED <<interaction, entry, args, metaVars>>

\* the awaited call raises: no await of send is inside a try
CallRaises ==
    /\ pc \in {"await_first", "await_fetch"}
    /\ calls' = [calls EXCEPT ![Len(calls)].status = "raised"]
    /\ ret' = HTTPException
    /\ pc' = "raised"
    /\ UNCHANGED <<interaction, entry, args, metaVars>>

\* the caller of send goes on
Resume ==
    /\ pc \in {"returned", "raised"}
    /\ pc' = "idle"
    /\ UNCHANGED <<interaction, entry, args, calls, ret, metaVars>>

\* await self.defer(ephemeral=...): the response is given; on an interaction that
\* has responded the call raises and changes nothing
Defer ==
    /\ pc = "idle"
    /\ ~interaction.done
    /\ interaction' = [interaction EXCEPT !.done = TRUE]
    /\ UNCHANGED <<entry, pc, args, calls, ret, metaVars>>

\* the token of the interaction runs out
Expire ==
    /\ ~interaction.expired
    /\ interaction' = [interaction EXCEPT !.expired = TRUE]
    /\ UNCHANGED <<entry, pc, args, calls, ret, metaVars>>

Send == \E a \in SendArgs : SendStart(a)

FirstDone == \E m \in MessageIds : FirstReturns(m)

FetchDone == \E m \in MessageIds : FetchReturns(m)

NextSend == Send \/ FirstDone \/ FetchDone \/ CallRaises \/ Resume \/ Defer \/ Expire

SpecSend == Init /\ [][NextSend]_vars

(***************************************************************************)
(* Properties of class construction, checked under Spec.                   *)
(***************************************************************************)
\* an attribute of a class body that the specification makes a parameter
Eligible(e) ==
    /\ ~StartsWithUnderscore(e[1])
    /\ e[1] # "interaction"
    /\ e[2].tag \notin {"function", "classmethod", "staticmethod"}

EligibleNames(body) ==
    LET el == SelectSeq(body, Eligible) IN [i \in 1..Len(el) |-> el[i][1]]

\* the descriptor of parameter k of class c
Descriptor(c, k) ==
    LET ps == ParamsOf(classes, c) IN ps[CHOOSE i \in 1..Len(ps) : ps[i].name = k]

HasParam(c, k) == \E i \in 1..Len(ParamsOf(classes, c)) : ParamsOf(classes, c)[i].name = k

MapsTo(d, k, v) == Has(d, k) /\ Get(d, k) = v

IsOption(v) == v.tag = "Option"

\* C1: every class definition completes, and the parameter list of the class
\* names exactly the eligible attributes of the body (not private, not
\* `interaction`, not function-valued), once each, in declaration order.
C1_EligibleAttributesBecomeParameters ==
    last.op = "define" =>
        /\ last.exc = "none"
        /\ ParamNames(classes, last.cls) = EligibleNames(last.body)

\* C2: an attribute assigned Option(default=D, name=N, description=Desc) yields a
\* class whose descriptor for the attribute has default D, whose rename map has
\* attr -> N and whose description map has attr -> Desc.
C2_OptionFillsDescriptorAndMaps ==
    last.op = "define" =>
        \A i \in 1..Len(last.body) :
            (Eligible(last.body[i]) /\ IsOption(last.body[i][2])) =>
                LET k == last.body[i][1]
                    v == last.body[i][2]
                IN  /\ last.exc = "none"
                    /\ HasParam(last.cls, k)
                    /\ Descriptor(last.cls, k).default = v.default
                    /\ MapsTo(RenamesOf(classes, last.cls), k, v.name)
                    /\ MapsTo(DescriptionsOf(classes, last.cls), k, v.description)

\* the class just defined has a map under key m that its body did not supply,
\* with an entry for k
GainsEntry(m, k) ==
    /\ Has(classes[last.cls].ns, m)
    /\ ~Has(last.body, m)
    /\ Has(Get(classes[last.cls].ns, m).items, k)

\* C3: an attribute assigned a bare value V (no Option, not MISSING) yields a
\* class whose descriptor for the attribute has default V, with no rename and no
\* description entry for the attribute.
C3_BareValueIsTheDefault ==
    last.op = "define" =>
        \A i \in 1..Len(last.body) :
            (Eligible(last.body[i]) /\ last.body[i][2].tag = "bare") =>
                LET k == last.body[i][1]
                IN  /\ last.exc = "none"
                    /\ HasParam(last.cls, k)
                    /\ Descriptor(last.cls, k).default = last.body[i][2]
                    /\ ~GainsEntry(RenameKey, k)
                    /\ ~GainsEntry(DescriptionKey, k)

\* the type tag of the class a body with this base defines
TypeOfBase(b) == IF ClassHas(classes, b, TypeKey) THEN ClassGet(classes, b, TypeKey).val ELSE "none"

\* C4: a subclass of UserCommand or MessageCommand with two or more eligible
\* parameters is refused with TypeError and no class is created; with none or
\* one it is created; a chat-input command class is never refused with TypeError.
C4_ContextMenuArity ==
    last.op = "define" =>
        /\ TypeOfBase(last.base) \in {"user", "message"} =>
              IF Len(EligibleNames(last.body)) >= 2
              THEN last.exc = "TypeError" /\ last.cls = 0
              ELSE last.exc = "none" /\ last.cls # 0
        /\ TypeOfBase(last.base) = "chat_input" => last.exc # "TypeError"

\* C9: on every class, every key of the rename map and of the description map
\* readable on the class names a parameter descriptor of the parameter list
\* readable on that class.
C9_MapKeysAreParameters ==
    \A c \in 1..Len(classes) :
        \A k \in Keys(RenamesOf(classes, c)) \cup Keys(DescriptionsOf(classes, c)) :
            HasParam(c, k)

\* the names a body annotates without binding them to a value
AnnotationOnly(body) ==
    IF Has(body, AnnotationsKey)
    THEN {k \in Keys(Get(body, AnnotationsKey).items) : ~Has(body, k)}
    ELSE {}

BuiltinNames == {"Command", "SlashCommand", "UserCommand", "MessageCommand"}

\* C10: the scan covers only the names the class body binds to a value: a name
\* that is annotated and not assigned yields no descriptor, and Command,
\* SlashCommand, UserCommand and MessageCommand each exist with an empty
\* parameter list and no rename or description map of their own.
C10_AnnotationAloneIsNoParameter ==
    /\ \A n \in BuiltinNames :
          \E c \in 1..Len(classes) :
              /\ classes[c].name = n
              /\ Has(classes[c].ns, ParamsKey)
              /\ Get(classes[c].ns, ParamsKey) = List(<<>>)
              /\ ~Has(classes[c].ns, RenameKey)
              /\ ~Has(classes[c].ns, DescriptionKey)
    /\ (last.op = "define" /\ last.exc = "none") =>
          \A k \in AnnotationOnly(last.body) : ~HasParam(last.cls, k)

\* a class whose body annotates `a` without assigning it has been created
C10_Witness ==
    /\ last.op = "define"
    /\ last.exc = "none"
    /\ "a" \in AnnotationOnly(last.body)
    /\ \E c \in 1..Len(classes) :
          classes[c].name = "UserCommand" /\ "target" \in AnnotationOnly(UserCommandBody)
    /\ ParamsOf(classes, last.cls) = <<>>

(***************************************************************************)
(* Isolation of instances, checked under SpecInst.                         *)
(***************************************************************************)
\* the attributes read through an instance
ReadKeys == WrittenKeys \cup MutatedKeys \cup {RenameKey, DescriptionKey}

\* everything instance j shows, and the metadata of its class
View(cls, insts, j) ==
    [k \in ReadKeys |-> Read(cls, insts, j, k)]

Metadata(cls, c) ==
    <<ParamsOf(cls, c), RenamesOf(cls, c), DescriptionsOf(cls, c)>>

\* C8: a write or an in-place change made through one instance leaves every
\* attribute read through another instance of the class, and the parameter
\* list, rename map and description map of the class, as they were.
C8_InstancesShareNoMutableState ==
    [][ last'.op \in {"setattr", "mutate"} =>
            /\ \A j \in 1..Len(instances) :
                  j # last'.actor => View(classes', instances', j) = View(classes, instances, j)
            /\ Metadata(classes', last'.cls) = Metadata(classes, last'.cls) ]_vars

(***************************************************************************)
(* Routing of send, checked under SpecSend.                                *)
(***************************************************************************)
ChannelNames ==
    {"content", "tts", "embed", "embeds", "file", "files", "nonce", "allowed_mentions",
     "view", "suppress_embeds"}

Paths == {calls[i].path : i \in 1..Len(calls)}

\* C5: a send that finds the interaction expired, responded or not, makes one
\* external call, the channel send, with content, tts, embed, embeds, file,
\* files, nonce, allowed_mentions, view and suppress_embeds as given and no
\* `ephemeral`, and returns what the channel send returned.
C5_ExpiredRoutesToChannel ==
    (pc # "idle" /\ entry.expired) =>
        /\ Len(calls) = 1
        /\ calls[1].path = "channel.send"
        /\ DOMAIN calls[1].kwargs = ChannelNames
        /\ \A k \in ChannelNames : calls[1].kwargs[k] = args[k]
        /\ pc = "returned" => (calls[1].status = "returned" /\ ret = calls[1].result)

\* a send with ephemeral=True on an expired, responded interaction has returned
C5_Witness ==
    /\ pc = "returned"
    /\ entry.expired
    /\ entry.done
    /\ args.ephemeral
    /\ ret \in {Message(m) : m \in MessageIds}

\* C6 as stated: a send that finds the interaction responded goes to the
\* follow-up send with wait=True, returns its result and never calls
\* send_message.
C6_RespondedRoutesToFollowup ==
    (pc # "idle" /\ entry.done) =>
        /\ Len(calls) = 1
        /\ calls[1].path = "followup.send"
        /\ "wait" \in DOMAIN calls[1].kwargs
        /\ calls[1].kwargs["wait"] = TRUE
        /\ pc = "returned" => (calls[1].status = "returned" /\ ret = calls[1].result)

\* C6 amended: a send that finds the interaction responded and not expired goes
\* to the follow-up send with wait=True, returns its result and never calls
\* send_message.
C6_LiveRespondedRoutesToFollowup ==
    (pc # "idle" /\ entry.done /\ ~entry.expired) =>
        /\ Len(calls) = 1
        /\ calls[1].path = "followup.send"
        /\ "wait" \in DOMAIN calls[1].kwargs
        /\ calls[1].kwargs["wait"] = TRUE
        /\ "response.send_message" \notin Paths
        /\ pc = "returned" => (calls[1].status = "returned" /\ ret = calls[1].result)

\* a send on a responded, live interaction has returned the follow-up message
C6_Witness ==
    /\ pc = "returned"
    /\ entry.done
    /\ ~entry.expired
    /\ calls[1].path = "followup.send"
    /\ ret = calls[1].result

\* C7: a send that finds the interaction live and not responded calls
\* send_message first, fetches original_message only once send_message has
\* returned, returns the fetched message, calls neither the follow-up nor the
\* channel send, and fetches nothing when send_message raises.
C7_FreshRespondsThenFetches ==
    (pc # "idle" /\ ~entry.expired /\ ~entry.done) =>
        /\ Len(calls) \in {1, 2}
        /\ calls[1].path = "response.send_message"
        /\ Paths \subseteq {"response.send_message", "original_message"}
        /\ Len(calls) = 2 =>
              (calls[2].path = "original_message" /\ calls[1].status = "returned")
        /\ calls[1].status = "raised" => (Len(calls) = 1 /\ pc = "raised")
        /\ pc = "returned" =>
              /\ Len(calls) = 2
              /\ calls[2].status = "returned"
              /\ ret = calls[2].result

\* a send on a fresh interaction has returned the fetched message
C7_Witness ==
    /\ pc = "returned"
    /\ ~entry.expired
    /\ ~entry.done
    /\ Len(calls) = 2
    /\ ret = calls[2].result
    /\ ret \in {Message(m) : m \in MessageIds}

====
